---- MODULE Spec2Model ----
(***************************************************************************)
(* Group30Agent (src/agents/group_30_agent/group_30_agent.py): the         *)
(* decision core of a bilateral negotiation party, as a state machine.     *)
(*                                                                         *)
(* Numbers.  Utilities and progress are fixed-point integers in units of   *)
(* 1/1000 (0.8 is 800, progress 0.95 is 950).  Scores are in units of      *)
(* 1/10^9.  The float and Decimal literals of the code are translated by   *)
(* their exact binary value: float 0.8, 0.4, 0.002, 0.9 lie just above the *)
(* decimal they are written as, float 0.03 just below, so on the 1/1000    *)
(* grid  x > 0.8  is  x > 800,  x < Decimal(0.4)  is  x <= 400  and        *)
(* x > 0.03  is  x >= 30.                                                  *)
(*                                                                         *)
(* A bid is an integer 1..NumBids; None (Python's None) is 0.              *)
(***************************************************************************)
EXTENDS Integers, Sequences, FiniteSets, TLC

\* ------------------------------------------------------------------ units
One == 10 * 100
ScoreUnit == One * One
Max(a, b) == IF a >= b THEN a ELSE b
Abs(x) == IF x < 0 THEN 0 - x ELSE x

\* ----------------------------------------------------------------- bounds
\* Longest received-offer history of the general session specification.
MaxReceived == 2
\* num_samples of initialize_bid_space (5000 in the code), scaled down.
NumSamples == 4
\* The top slice of initialize_bid_space (300 in the code), scaled down.
TopSlice == 3
\* The size of the candidate space (150 in the code), scaled down.
TopN == 2

\* ------------------------------------------------------- program constants
None == 0
alpha == 900
InvEps == 10
AcceptFloor == 800
LateThreshold == 950
NearDeadline == 980
FinalThreshold == 990
OpeningEnd == 300
Aspiration == 750
ReservationValue == 400
StubbornGap == 400
WindowFirst == 10
WindowLast == 13
MinHistory == 100
silent_move_delta == 2
concession_move_delta == 30
large_concession_delta == 60
selfish_move_delta == 10
CongestionDelta == 20
NashWeight == 7
CheckpointSecond == 300
CheckpointThird == 600
CheckpointFourth == 900

\* ------------------------------------------------------------ the domain
\* Two issues with two values each: AllBidsList(domain) has four bids.
Issues == {1, 2}
Values == {0, 1}
NumBids == Cardinality(Values) * Cardinality(Values)
all_bids == 1 .. NumBids
BidOrNone == all_bids \cup {None}
\* Bid.getValue(issue)
getValue(bid, i) == IF i = 1 THEN (bid - 1) % 2 ELSE (bid - 1) \div 2

\* The profiles a session may be given (LinearAdditiveUtilitySpace): the
\* issue weights, in 1/1000; value v of an issue is worth v.
Profiles == { <<800, 200>> }
NoProfile == << >>
\* profile.getUtility(bid), for a bid that is not None
getUtility(prof, bid) == prof[1] * getValue(bid, 1) + prof[2] * getValue(bid, 2)

\* --------------------------------------------------------- OpponentModel
ZeroCounts == [i \in Issues |-> [v \in Values |-> 0]]
NoModel == [exists |-> FALSE, counts |-> ZeroCounts]
\* OpponentModel(domain)
NewModel == [exists |-> TRUE, counts |-> ZeroCounts]
\* OpponentModel.update(bid): one more observation of each value of the bid
update(om, bid) ==
  [om EXCEPT !.counts = [i \in Issues |-> [v \in Values |->
      IF v = getValue(bid, i) THEN om.counts[i][v] + 1 ELSE om.counts[i][v]]]]
DistinctValues(om, i) == Cardinality({v \in Values : om.counts[i][v] > 0})
MaxCount(om, i) == CHOOSE m \in {om.counts[i][v] : v \in Values} :
                       \A v \in Values : om.counts[i][v] <= m
\* The weight of issue i before normalisation, 1/distinct(i), over the common
\* denominator distinct(1) * distinct(2).
RawWeight(om, i) == IF i = 1 THEN DistinctValues(om, 2) ELSE DistinctValues(om, 1)
\* The desirability of the value the bid takes on issue i: its count over
\* the largest count of the issue.
ValueDesirability(om, bid, i) ==
  (One * om.counts[i][getValue(bid, i)]) \div MaxCount(om, i)
\* OpponentModel.get_predicted_utility(bid), after at least one update
get_predicted_utility(om, bid) ==
  (RawWeight(om, 1) * ValueDesirability(om, bid, 1)
     + RawWeight(om, 2) * ValueDesirability(om, bid, 2))
  \div (RawWeight(om, 1) + RawWeight(om, 2))

\* --------------------------------------------------------------- BidScorer
\* The clock readings of a session
ProgressPoints == {100, 300, 950, 960, 980, 990, 999}
RECURSIVE PowFix(_, _)
\* p ** k in units of 1/10^6, p in 1/1000
PowFix(p, k) == IF k = 0 THEN ScoreUnit ELSE (PowFix(p, k - 1) * p) \div One
\* time_pressure = 1.0 - progress ** (1 / eps), in 1/10^6
time_pressure(prog) == ScoreUnit - PowFix(prog, InvEps)
\* alpha * time_pressure, in 1/10^6, tabulated over the clock readings and
\* the two ends of the session
SelfWeight == [prog \in ProgressPoints \cup {0, One} |-> (alpha * time_pressure(prog)) \div One]
\* score_bid with the own-utility term taken off instead of added
score_bid_opposed(prof, om, prog, bid) ==
  (IF om.exists
     THEN (ScoreUnit - SelfWeight[prog]) * get_predicted_utility(om, bid)
     ELSE 0)
    - SelfWeight[prog] * getUtility(prof, bid)
\* score_bid(bid) for a bid that is not None, in 1/10^9
score_bid(prof, om, prog, bid) ==
  SelfWeight[prog] * getUtility(prof, bid)
    + (IF om.exists
         THEN (ScoreUnit - SelfWeight[prog]) * get_predicted_utility(om, bid)
         ELSE 0)

\* ------------------------------------------------------------------ lists
\* list.sort(key=...): stable, in ascending order of key, a function of
\* the bids; reverse=True is the ascending order of the negated key
Insert(t, x, key) ==
  LET later == {j \in 1 .. Len(t) : key[x] < key[t[j]]}
      pos == IF later = {} THEN Len(t) + 1
             ELSE CHOOSE j \in later : \A k \in later : j <= k
  IN SubSeq(t, 1, pos - 1) \o <<x>> \o SubSeq(t, pos, Len(t))
Sort(s, key) ==
  LET F[n \in 0 .. Len(s)] == IF n = 0 THEN << >> ELSE Insert(F[n - 1], s[n], key)
  IN F[Len(s)]
\* s[:n]
Prefix(s, n) == SubSeq(s, 1, IF n < Len(s) THEN n ELSE Len(s))
Range(s) == {s[j] : j \in 1 .. Len(s)}
RECURSIVE SumSeq(_, _, _)
\* sum(f(b) for b in s[:n]), f a function of the bids
SumSeq(s, f, n) == IF n = 0 THEN 0 ELSE SumSeq(s, f, n - 1) + f[s[n]]

\* ---------------------------------------------------------- CandidateSpace
\* _nash_product(bid), in 1/10^6
nash_product(prof, om, bid) == getUtility(prof, bid) * get_predicted_utility(om, bid)
\* _dominates(bid1, bid2)
dominates(prof, om, bid1, bid2) ==
  LET u1 == getUtility(prof, bid1)
      u2 == getUtility(prof, bid2)
      o1 == get_predicted_utility(om, bid1)
      o2 == get_predicted_utility(om, bid2)
  IN (u1 >= u2 /\ o1 >= o2) /\ (u1 > u2 \/ o1 > o2)
\* _pareto_filter with an inner loop that runs over the earlier bids only
pareto_filter_one_pass(prof, om, bids) ==
  LET F[n \in 0 .. Len(bids)] ==
        IF n = 0 THEN << >>
        ELSE IF \E j \in 1 .. n - 1 :
                  bids[j] # bids[n] /\ dominates(prof, om, bids[j], bids[n])
          THEN F[n - 1]
          ELSE Append(F[n - 1], bids[n])
  IN F[Len(bids)]
\* _pareto_filter(bids)
pareto_filter(prof, om, bids) ==
  SelectSeq(bids, LAMBDA bid :
    ~ \E j \in 1 .. Len(bids) : bids[j] # bid /\ dominates(prof, om, bids[j], bid))
\* _congestion_score(bid, bids)
congestion_score(prof, om, bid, bids) ==
  Cardinality({j \in 1 .. Len(bids) :
    /\ Abs(getUtility(prof, bids[j]) - getUtility(prof, bid)) < CongestionDelta
    /\ Abs(get_predicted_utility(om, bids[j]) - get_predicted_utility(om, bid))
         < CongestionDelta})
\* sample_bids after line 173: the sample sorted by own utility, best first
SortedSample(prof, sample) ==
  Sort(sample, [b \in all_bids |-> 0 - getUtility(prof, b)])
\* The refinement branch of initialize_bid_space (lines 180-210): the Pareto
\* subset of the top slice, padded, then ranked by
\* alpha * nash + (1 - alpha) * congestion / max_congestion, compared here
\* after multiplying by 10 * max_congestion, in 1/10^6.
PaddedPareto(prof, om, top_candidates) ==
  LET pareto_bids == pareto_filter(prof, om, top_candidates)
      padded == IF Len(pareto_bids) < TopN
                  THEN pareto_bids \o Prefix(top_candidates, TopN - Len(pareto_bids))
                  ELSE pareto_bids
  IN IF padded = << >> THEN top_candidates ELSE padded
RefinedSpace(prof, om, sorted) ==
  LET pareto_bids == PaddedPareto(prof, om, Prefix(sorted, TopSlice))
      cong(bid) == congestion_score(prof, om, bid, sorted)
      max_congestion == CHOOSE m \in {cong(b) : b \in Range(pareto_bids)} :
                            \A b \in Range(pareto_bids) : cong(b) <= m
      combined(bid) == NashWeight * nash_product(prof, om, bid) * max_congestion
                         + (10 - NashWeight) * ScoreUnit * cong(bid)
  IN Prefix(Sort(pareto_bids, [b \in all_bids |-> 0 - combined(b)]), TopN)
\* initialize_bid_space keeping the whole top slice when it does not refine
initialize_bid_space_top_slice(prof, om, label, rb, sample) ==
  LET sorted == SortedSample(prof, sample)
  IN IF label # "None" /\ label # "R" /\ Len(rb) > MinHistory
       THEN RefinedSpace(prof, om, sorted)
       ELSE Prefix(sorted, TopSlice)
\* initialize_bid_space refining from MinHistory received offers on
initialize_bid_space_at_least(prof, om, label, rb, sample) ==
  LET sorted == SortedSample(prof, sample)
  IN IF label # "None" /\ label # "R" /\ Len(rb) >= MinHistory
       THEN RefinedSpace(prof, om, sorted)
       ELSE Prefix(Prefix(sorted, TopSlice), TopN)
\* initialize_bid_space(), given the random sample it draws: the new
\* best_candidate_space
initialize_bid_space(prof, om, label, rb, sample) ==
  LET sorted == SortedSample(prof, sample)
  IN IF label # "None" /\ label # "R" /\ Len(rb) > MinHistory
       THEN RefinedSpace(prof, om, sorted)
       ELSE Prefix(Prefix(sorted, TopSlice), TopN)

\* ----------------------------------------------------- AcceptanceEvaluator
\* accept_condition with the comparison of the scores turned around
accept_condition_flipped(prof, om, prog, stubborn, sw_value, bid, next_bid) ==
  IF bid = None THEN "reject"
  ELSE IF next_bid = None THEN "fail"
  ELSE IF score_bid(prof, om, prog, bid) < score_bid(prof, om, prog, next_bid)
    THEN "accept"
  ELSE IF getUtility(prof, bid) > AcceptFloor /\ prog > LateThreshold
    THEN "accept"
  ELSE IF prog > NearDeadline /\ stubborn /\ getUtility(prof, bid) > sw_value
    THEN "accept"
  ELSE IF prog > FinalThreshold THEN "accept"
  ELSE "reject"
\* accept_condition with a late-stage floor that a utility of 0.8 meets
accept_condition_floor_met(prof, om, prog, stubborn, sw_value, bid, next_bid) ==
  IF bid = None THEN "reject"
  ELSE IF next_bid = None THEN "fail"
  ELSE IF score_bid(prof, om, prog, bid) > score_bid(prof, om, prog, next_bid)
    THEN "accept"
  ELSE IF getUtility(prof, bid) >= AcceptFloor /\ prog > LateThreshold
    THEN "accept"
  ELSE IF prog > NearDeadline /\ stubborn /\ getUtility(prof, bid) > sw_value
    THEN "accept"
  ELSE IF prog > FinalThreshold THEN "accept"
  ELSE "reject"
\* accept_condition(bid, next_bid): "accept" (True), "reject" (False), or
\* "fail" when score_bid(next_bid) asks the profile for the utility of None.
accept_condition(prof, om, prog, stubborn, sw_value, bid, next_bid) ==
  IF bid = None THEN "reject"
  ELSE IF next_bid = None THEN "fail"
  ELSE IF score_bid(prof, om, prog, bid) > score_bid(prof, om, prog, next_bid)
    THEN "accept"
  ELSE IF getUtility(prof, bid) > AcceptFloor /\ prog > LateThreshold
    THEN "accept"
  ELSE IF prog > NearDeadline /\ stubborn /\ getUtility(prof, bid) > sw_value
    THEN "accept"
  ELSE IF prog > FinalThreshold THEN "accept"
  ELSE "reject"

\* ------------------------------------------------------------- find_bid
\* What find_bid() does: the bid it returns (or the failure it raises), the
\* candidate space as its in-place sort leaves it, and opponent_stubborn.
Found(bid, space, stubborn) ==
  [fail |-> "", bid |-> bid, space |-> space, stubborn |-> stubborn]
Raised(what, space, stubborn) ==
  [fail |-> what, bid |-> None, space |-> space, stubborn |-> stubborn]
\* Lines 330-346: progress < 0.3
FindOpening(prof, om, prog, space, lob, stubborn) ==
  IF lob = None
    THEN LET bids == Sort(space, [b \in all_bids |->
                       Abs(getUtility(prof, b) - Aspiration)])
         IN IF bids = << >> THEN Raised("IndexError: bids[0]", bids, stubborn)
            ELSE Found(bids[1], bids, stubborn)
    ELSE LET threshold == getUtility(prof, lob)
             filtered == SelectSeq(space, LAMBDA b : getUtility(prof, b) >= threshold)
         IN IF filtered # << >> THEN Found(space[1], space, stubborn)
            ELSE Found(lob, space, stubborn)
\* The bargaining phase returning the first bid of the sorted filtered list
FindBargaining_from_filtered(prof, om, prog, space, lob, stubborn) ==
  IF lob = None
    THEN Raised("AttributeError: getUtility(None) at line 350", space, stubborn)
    ELSE LET last == getUtility(prof, lob)
             filtered == SelectSeq(space, LAMBDA b :
                           last = 0 \/ 10 * getUtility(prof, b) > 9 * last)
         IN IF filtered # << >>
              THEN IF ~ om.exists
                     THEN Raised("AttributeError: opponent_model is None at line 353",
                                 space, stubborn)
                     ELSE Found(Sort(filtered, [b \in all_bids |->
                                  0 - get_predicted_utility(om, b)])[1], space, stubborn)
              ELSE Found(lob, space, stubborn)
\* Lines 348-357: 0.3 <= progress < 0.98.  threshold is the previous offer's
\* utility times Decimal(0.9), which is just above nine tenths of it.
FindBargaining(prof, om, prog, space, lob, stubborn) ==
  IF lob = None
    THEN Raised("AttributeError: getUtility(None) at line 350", space, stubborn)
    ELSE LET last == getUtility(prof, lob)
             filtered == SelectSeq(space, LAMBDA b :
                           last = 0 \/ 10 * getUtility(prof, b) > 9 * last)
         IN IF filtered # << >>
              THEN IF ~ om.exists
                     THEN Raised("AttributeError: opponent_model is None at line 353",
                                 space, stubborn)
                     ELSE Found(space[1], space, stubborn)
              ELSE Found(lob, space, stubborn)
\* Lines 359-369: progress >= 0.98
FindEndgame(prof, om, prog, space, lob, stubborn, rb, sw_bid) ==
  IF rb = << >>
    THEN Raised("ZeroDivisionError at line 361", space, stubborn)
    ELSE LET sum_opp == SumSeq(rb, [b \in Range(rb) |-> get_predicted_utility(om, b)], Len(rb))
             sum_my == SumSeq(rb, [b \in Range(rb) |-> getUtility(prof, b)], Len(rb))
         IN IF sum_opp - sum_my > StubbornGap * Len(rb)
               \/ sum_my <= ReservationValue * Len(rb)
              THEN Found(sw_bid, space, TRUE)
              ELSE Found(lob, space, stubborn)
find_bid(prof, om, prog, space, lob, stubborn, rb, sw_bid) ==
  IF prog < OpeningEnd THEN FindOpening(prof, om, prog, space, lob, stubborn)
  ELSE IF prog < NearDeadline THEN FindBargaining(prof, om, prog, space, lob, stubborn)
  ELSE FindEndgame(prof, om, prog, space, lob, stubborn, rb, sw_bid)

\* ------------------------------------------------------ StrategyRecognizer
NoHypothesis == {}
Hypotheses == {NoHypothesis, {"HH", "R"}, {"CC", "R", "TT"}, {"TT", "R"}, {"CC", "R"}}
Labels == {"HH", "CC", "TT", "R"}
\* classify_self_move(old_bid, new_bid): by the difference of the scores
classify_self_move(prof, om, prog, old_bid, new_bid) ==
  LET diff == score_bid(prof, om, prog, new_bid) - score_bid(prof, om, prog, old_bid)
  IN IF Abs(diff) <= silent_move_delta * ScoreUnit THEN "silent"
     ELSE IF diff < 0
       THEN IF Abs(diff) >= large_concession_delta * ScoreUnit THEN "large_concession"
            ELSE IF Abs(diff) >= concession_move_delta * ScoreUnit THEN "concession"
            ELSE "small_concession"
       ELSE IF diff >= selfish_move_delta * ScoreUnit THEN "selfish"
            ELSE "small_selfish"
\* classify_opponent_move with a silent band that ends below silent_move_delta
classify_opponent_move_below(prof, om, old_bid, new_bid) ==
  LET diff == getUtility(prof, new_bid) - getUtility(prof, old_bid)
      dff == get_predicted_utility(om, new_bid) - get_predicted_utility(om, old_bid)
  IN IF Abs(diff) < silent_move_delta THEN "silent"
     ELSE IF diff >= concession_move_delta THEN "concession"
     ELSE IF dff > 0
       THEN IF dff >= selfish_move_delta THEN "selfish" ELSE "unknown"
       ELSE IF diff >= 0 THEN "small_concession" ELSE "unknown"
\* classify_opponent_move(old_bid, new_bid): diff is the change of own
\* utility, dff the change of predicted opponent utility
classify_opponent_move(prof, om, old_bid, new_bid) ==
  LET diff == getUtility(prof, new_bid) - getUtility(prof, old_bid)
      dff == get_predicted_utility(om, new_bid) - get_predicted_utility(om, old_bid)
  IN IF Abs(diff) <= silent_move_delta THEN "silent"
     ELSE IF diff >= concession_move_delta THEN "concession"
     ELSE IF dff > 0
       THEN IF dff >= selfish_move_delta THEN "selfish" ELSE "unknown"
       ELSE IF diff >= 0 THEN "small_concession" ELSE "unknown"
NonEscalating == {"silent", "concession", "small_concession", "selfish"}
\* The round-2 analysis run on the window offers alone, a missing probe
\* pair counting as no move of the party
RoundTwoHypothesis_without_probes(prof, om, prog, h, o, hyp) ==
  IF Len(o) >= 2 /\ hyp = NoHypothesis
    THEN LET sigma_opp == score_bid(prof, om, prog, o[2]) - score_bid(prof, om, prog, o[1])
             sigma_self == IF Len(h) >= 2
                             THEN score_bid(prof, om, prog, h[2])
                                    - score_bid(prof, om, prog, h[1])
                           ELSE 0
             move_type_opp == classify_opponent_move(prof, om, o[1], o[2])
         IN IF sigma_opp <= Abs(sigma_self) /\ move_type_opp \in NonEscalating
              THEN {"HH", "R"}
            ELSE IF sigma_opp >= sigma_self THEN {"CC", "R", "TT"}
            ELSE hyp
    ELSE hyp
\* Lines 455-467: the hypothesis after the round-2 analysis
RoundTwoHypothesis(prof, om, prog, h, o, hyp) ==
  IF Len(o) >= 2 /\ Len(h) >= 2 /\ hyp = NoHypothesis
    THEN LET sigma_opp == score_bid(prof, om, prog, o[2]) - score_bid(prof, om, prog, o[1])
             sigma_self == score_bid(prof, om, prog, h[2]) - score_bid(prof, om, prog, h[1])
             move_type_opp == classify_opponent_move(prof, om, o[1], o[2])
         IN IF sigma_opp <= Abs(sigma_self) /\ move_type_opp \in NonEscalating
              THEN {"HH", "R"}
            ELSE IF sigma_opp >= sigma_self THEN {"CC", "R", "TT"}
            ELSE hyp
    ELSE hyp
\* The round-3 analysis narrowing every hypothesis that is not {HH, R}
RoundThree_from_any(prof, om, prog, h, o, hyp, label) ==
  IF Len(o) >= 3 /\ Len(h) >= 3 /\ label = "None"
    THEN LET sigma_opp == score_bid(prof, om, prog, o[3]) - score_bid(prof, om, prog, o[2])
             sigma_self == score_bid(prof, om, prog, h[3]) - score_bid(prof, om, prog, h[2])
             move_type_opp == classify_opponent_move(prof, om, o[2], o[3])
         IN IF hyp = {"HH", "R"}
              THEN IF move_type_opp \in NonEscalating /\ Abs(sigma_opp) <= Abs(sigma_self)
                     THEN [hyp |-> hyp, label |-> "HH"]
                     ELSE [hyp |-> hyp, label |-> "R"]
            ELSE IF move_type_opp = "selfish" THEN [hyp |-> {"TT", "R"}, label |-> label]
            ELSE IF move_type_opp \in {"silent", "concession"}
              THEN [hyp |-> {"CC", "R"}, label |-> label]
            ELSE [hyp |-> hyp, label |-> label]
    ELSE [hyp |-> hyp, label |-> label]
\* Lines 470-490: the hypothesis and the label after the round-3 analysis
RoundThree(prof, om, prog, h, o, hyp, label) ==
  IF Len(o) >= 3 /\ Len(h) >= 3 /\ label = "None"
    THEN LET sigma_opp == score_bid(prof, om, prog, o[3]) - score_bid(prof, om, prog, o[2])
             sigma_self == score_bid(prof, om, prog, h[3]) - score_bid(prof, om, prog, h[2])
             move_type_opp == classify_opponent_move(prof, om, o[2], o[3])
         IN IF hyp = {"HH", "R"}
              THEN IF move_type_opp \in NonEscalating /\ Abs(sigma_opp) <= Abs(sigma_self)
                     THEN [hyp |-> hyp, label |-> "HH"]
                     ELSE [hyp |-> hyp, label |-> "R"]
            ELSE IF hyp = {"CC", "R", "TT"}
              THEN IF move_type_opp = "selfish" THEN [hyp |-> {"TT", "R"}, label |-> label]
                   ELSE IF move_type_opp \in {"silent", "concession"}
                     THEN [hyp |-> {"CC", "R"}, label |-> label]
                   ELSE [hyp |-> hyp, label |-> label]
            ELSE [hyp |-> hyp, label |-> label]
    ELSE [hyp |-> hyp, label |-> label]
\* update_strategy_recognition with a round-3 analysis that runs whether or
\* not a label is set
update_strategy_recognition_rerun(prof, om, prog, h, o, hyp, label) ==
  LET second == Len(o) >= 2 /\ Len(h) >= 2 /\ hyp = NoHypothesis
      third == Len(o) >= 3 /\ Len(h) >= 3
  IN IF (second \/ third) /\ ~ om.exists
       THEN [fail |-> "AttributeError: opponent_model is None at line 528",
             hyp |-> hyp, label |-> label]
       ELSE LET r == RoundThree(prof, om, prog, h, o,
                                RoundTwoHypothesis(prof, om, prog, h, o, hyp), "None")
            IN [fail |-> "", hyp |-> r.hyp,
                label |-> IF r.label = "None" THEN label ELSE r.label]
\* update_strategy_recognition(): the hypothesis and the label it leaves.
\* Both analyses call classify_opponent_move, which needs the opponent model.
update_strategy_recognition(prof, om, prog, h, o, hyp, label) ==
  LET second == Len(o) >= 2 /\ Len(h) >= 2 /\ hyp = NoHypothesis
      third == Len(o) >= 3 /\ Len(h) >= 3 /\ label = "None"
  IN IF (second \/ third) /\ ~ om.exists
       THEN [fail |-> "AttributeError: opponent_model is None at line 528",
             hyp |-> hyp, label |-> label]
       ELSE LET r == RoundThree(prof, om, prog, h, o,
                                RoundTwoHypothesis(prof, om, prog, h, o, hyp), label)
            IN [fail |-> "", hyp |-> r.hyp, label |-> r.label]
\* final_strategy_analysis(): the label it leaves
final_strategy_analysis(prof, om, o, hyp, label) ==
  IF Len(o) < 3 THEN [fail |-> "", label |-> label]
  ELSE IF ~ om.exists
    THEN [fail |-> "AttributeError: opponent_model is None at line 528", label |-> label]
  ELSE IF label # "None" THEN [fail |-> "", label |-> label]
  ELSE LET move_type == classify_opponent_move(prof, om, o[2], o[3])
       IN IF hyp = {"TT", "R"}
            THEN [fail |-> "", label |-> IF move_type = "silent" THEN "TT" ELSE "R"]
          ELSE IF hyp = {"CC", "R"}
            THEN [fail |-> "", label |->
                    IF move_type \in {"silent", "concession"} THEN "CC" ELSE "R"]
          ELSE [fail |-> "", label |-> "R"]

\* max(candidates, key=self.score_bid): the first bid of the largest score
MaxByScore(prof, om, prog, candidates) ==
  LET best == CHOOSE j \in 1 .. Len(candidates) :
        /\ \A k \in 1 .. Len(candidates) :
             score_bid(prof, om, prog, candidates[k]) <= score_bid(prof, om, prog, candidates[j])
        /\ \A k \in 1 .. j - 1 :
             score_bid(prof, om, prog, candidates[k]) < score_bid(prof, om, prog, candidates[j])
  IN candidates[best]
\* Rounds 2 to 4 of strategy_recognition_move: the best-scored bid of the
\* candidate space whose move from the previous probe bid is of the wanted
\* type, or the random bid rnd when there is none
ProbeBid(prof, om, prog, space, previous, wanted, rnd) ==
  LET candidates == SelectSeq(space, LAMBDA bid :
                      classify_self_move(prof, om, prog, previous, bid) = wanted)
  IN MaxByScore(prof, om, prog, IF candidates = << >> THEN <<rnd>> ELSE candidates)
\* strategy_recognition_move(): what it returns and what it leaves
strategy_recognition_move(prof, om, prog, space, lob, stubborn, rb, sw_bid, h, o, hyp, label, rnd) ==
  LET current_round == Len(h) + 1
      hyp3 == IF hyp = NoHypothesis THEN {"CC", "R", "TT"} ELSE hyp
      final == final_strategy_analysis(prof, om, o, hyp, label)
  IN IF current_round = 1
       THEN find_bid(prof, om, prog, space, lob, stubborn, rb, sw_bid)
              @@ [hyp |-> hyp, label |-> label]
     ELSE IF current_round = 2
       THEN Found(ProbeBid(prof, om, prog, space, h[1], "concession", rnd), space, stubborn)
              @@ [hyp |-> hyp, label |-> label]
     ELSE IF current_round = 3
       THEN Found(ProbeBid(prof, om, prog, space, h[Len(h)],
                           IF hyp3 = {"HH", "R"} THEN "large_concession" ELSE "selfish",
                           rnd), space, stubborn)
              @@ [hyp |-> hyp3, label |-> label]
     ELSE IF current_round = 4
       THEN IF final.fail # ""
              THEN Raised(final.fail, space, stubborn) @@ [hyp |-> hyp, label |-> label]
              ELSE Found(ProbeBid(prof, om, prog, space, h[Len(h)], "silent", rnd),
                         space, stubborn)
                     @@ [hyp |-> hyp, label |-> final.label]
     ELSE Found(None, space, stubborn) @@ [hyp |-> hyp, label |-> label]

\* ------------------------------------------------------------------ state
VARIABLES
  pc,                          \* where the party is in its life
  profile,                     \* self.profile
  progress,                    \* the last value self.progress.get(...) returned
  last_received_bid,
  last_last_received_bid,
  last_offered_bid,
  opponent_model,
  received_bids,
  social_welfare_bid,
  social_welfare_value,
  opponent_stubborn,
  recognition_h_bid_history,
  recognition_o_bid_history,
  opponent_hypothesis,
  recognized_strategy,
  best_candidate_space,
  best_candidate_space_init,
  best_candidate_space_final,
  refreshes,                   \* how many times initialize_bid_space has run
  returned,                    \* the list handed to a directly called method, and its result
  event,                       \* the last handler or method that ran
  sent,                        \* the action it sent through send_action
  failure,                     \* the exception it raised, "" when none
  candidate,                   \* the candidate of the last my_turn
  sample_bids                  \* the sorted sample of the last refresh of the last call

history == <<last_received_bid, last_last_received_bid, received_bids,
             social_welfare_bid, social_welfare_value, opponent_model>>
recognition == <<recognition_h_bid_history, recognition_o_bid_history,
                 opponent_hypothesis, recognized_strategy>>
space_vars == <<best_candidate_space, best_candidate_space_init,
                best_candidate_space_final, refreshes>>
vars == <<pc, profile, progress, history, last_offered_bid, opponent_stubborn,
          recognition, space_vars, returned, event, sent, failure, candidate,
          sample_bids>>

NoAction == [kind |-> "none", bid |-> None]
NoCall == [bids |-> << >>, result |-> << >>]
Accept(bid) == [kind |-> "Accept", bid |-> bid]
Offer(bid) == [kind |-> "Offer", bid |-> bid]

\* The samples initialize_bid_space may draw: every multiset of NumSamples
\* bids, each in one order of the draws
Samples == {s \in [1 .. NumSamples -> all_bids] :
              \A j \in 1 .. NumSamples - 1 : s[j] <= s[j + 1]}

\* __init__
Init ==
  /\ pc = "constructed"
  /\ profile = NoProfile
  /\ progress = 0
  /\ last_received_bid = None
  /\ last_last_received_bid = None
  /\ last_offered_bid = None
  /\ opponent_model = NoModel
  /\ received_bids = << >>
  /\ social_welfare_bid = None
  /\ social_welfare_value = 0
  /\ opponent_stubborn = FALSE
  /\ recognition_h_bid_history = << >>
  /\ recognition_o_bid_history = << >>
  /\ opponent_hypothesis = NoHypothesis
  /\ recognized_strategy = "None"
  /\ best_candidate_space = << >>
  /\ best_candidate_space_init = FALSE
  /\ best_candidate_space_final = FALSE
  /\ refreshes = 0
  /\ returned = NoCall
  /\ event = "__init__"
  /\ sent = NoAction
  /\ failure = ""
  /\ candidate = None
  /\ sample_bids = << >>

\* notifyChange(Settings)
Settings(prof) ==
  /\ pc = "constructed"
  /\ pc' = "running"
  /\ profile' = prof
  /\ event' = "Settings"
  /\ sent' = NoAction
  /\ failure' = ""
  /\ candidate' = None
  /\ sample_bids' = << >>
  /\ UNCHANGED <<progress, history, last_offered_bid, opponent_stubborn,
                 recognition, space_vars, returned>>

\* self.received_bids with the new bid put in front
append_received_in_front(rb, bid) == <<bid>> \o rb
\* self.received_bids.append(bid) (line 256)
append_received(rb, bid) == Append(rb, bid)

\* The fallback value that keeps the utility of the first received bid
fallback_value_first(util, sw_value) == IF sw_value = 0 THEN util ELSE sw_value
\* self.social_welfare_value after lines 264-266, util the own utility of the
\* received bid
fallback_value(util, sw_value) == IF util > sw_value THEN util ELSE sw_value

\* opponent_action(action) for an Offer of bid, the clock reading p (lines
\* 238-270).  maxlen bounds the history of the specification.
opponent_action(bid, p, maxlen) ==
  LET om == update(IF opponent_model.exists THEN opponent_model ELSE NewModel, bid)
      rb == append_received(received_bids, bid)
      in_window == WindowFirst <= Len(rb) /\ Len(rb) <= WindowLast
      o_hist == IF in_window THEN Append(recognition_o_bid_history, bid)
                ELSE recognition_o_bid_history
      util == getUtility(profile, bid)
  IN \E rec \in {IF in_window
                   THEN update_strategy_recognition(profile, om, p,
                          recognition_h_bid_history, o_hist, opponent_hypothesis,
                          recognized_strategy)
                   ELSE [fail |-> "", hyp |-> opponent_hypothesis,
                         label |-> recognized_strategy]} :
     /\ Len(received_bids) < maxlen
     /\ progress' = p
     /\ opponent_model' = om
     /\ last_last_received_bid' = IF received_bids # << >> THEN last_received_bid ELSE bid
     /\ last_received_bid' = bid
     /\ received_bids' = rb
     /\ recognition_o_bid_history' = o_hist
     /\ social_welfare_value' = fallback_value(util, social_welfare_value)
     /\ social_welfare_bid' = IF util > social_welfare_value THEN bid
                              ELSE social_welfare_bid
     /\ opponent_hypothesis' = rec.hyp
     /\ recognized_strategy' = rec.label
     /\ failure' = rec.fail
     /\ pc' = IF rec.fail = "" THEN pc ELSE "failed"
     /\ sent' = NoAction
     /\ candidate' = None
     /\ sample_bids' = << >>
     /\ UNCHANGED <<profile, last_offered_bid, opponent_stubborn,
                    recognition_h_bid_history, space_vars, returned>>

\* notifyChange(ActionDone) of an Offer by the other party
OpponentOffer(bid, p, maxlen) ==
  /\ pc = "running"
  /\ p >= progress
  /\ event' = "OpponentOffer"
  /\ opponent_action(bid, p, maxlen)

\* notifyChange(ActionDone) of an action of the other party that is no Offer
\* (an Accept or an EndNegotiation): opponent_action does nothing.  Such an
\* action closes the negotiation, and only Finished follows it.
OpponentOther ==
  /\ pc = "running"
  /\ pc' = "closing"
  /\ event' = "OpponentOther"
  /\ sent' = NoAction
  /\ failure' = ""
  /\ candidate' = None
  /\ sample_bids' = << >>
  /\ UNCHANGED <<profile, progress, history, last_offered_bid, opponent_stubborn,
                 recognition, space_vars, returned>>

\* An ActionDone of the party's own Offer handled as an opponent's
OwnActionDone_as_received ==
  /\ pc = "running"
  /\ sent.kind = "Offer"
  /\ sent.bid \in all_bids
  /\ event' = "OwnActionDone"
  /\ opponent_action(sent.bid, progress, MaxReceived)
\* notifyChange(ActionDone) of an action of the party itself, which the
\* protocol reports after the party has sent an Offer (lines 104-109)
OwnActionDone ==
  /\ pc = "running"
  /\ sent.kind = "Offer"
  /\ event' = "OwnActionDone"
  /\ sent' = NoAction
  /\ failure' = ""
  /\ candidate' = None
  /\ sample_bids' = << >>
  /\ UNCHANGED <<pc, profile, progress, history, last_offered_bid, opponent_stubborn,
                 recognition, space_vars, returned>>

\* The checkpoint refreshes of my_turn without the one of line 286
AtCheckpoint_but_third(rb) ==
  Len(rb) \in {CheckpointSecond, CheckpointFourth}
\* Whether my_turn refreshes the candidate space after find_bid (lines 282-291)
AtCheckpoint(rb) ==
  Len(rb) \in {CheckpointSecond, CheckpointThird, CheckpointFourth}

\* my_turn() at the clock reading p (lines 272-296); sample1 is the sample of
\* the first refresh and sample2 that of a checkpoint refresh.
my_turn(p, sample1, sample2) ==
  \E space1 \in {IF ~ best_candidate_space_init
                   THEN initialize_bid_space(profile, opponent_model, recognized_strategy,
                                             received_bids, sample1)
                   ELSE best_candidate_space} :
  \E found \in {find_bid(profile, opponent_model, p, space1, last_offered_bid,
                         opponent_stubborn, received_bids, social_welfare_bid)} :
  \E space2 \in {IF AtCheckpoint(received_bids)
                   THEN initialize_bid_space(profile, opponent_model, recognized_strategy,
                                             received_bids, sample2)
                   ELSE found.space} :
  \E verdict \in {accept_condition(profile, opponent_model, p, found.stubborn,
                                   social_welfare_value, last_received_bid, found.bid)} :
     /\ progress' = p
     /\ best_candidate_space_init' = TRUE
     /\ opponent_stubborn' = found.stubborn
     /\ refreshes' = refreshes + (IF ~ best_candidate_space_init THEN 1 ELSE 0)
                        + (IF found.fail = "" /\ AtCheckpoint(received_bids) THEN 1 ELSE 0)
     /\ IF found.fail # ""
          THEN /\ pc' = "failed"
               /\ failure' = found.fail
               /\ best_candidate_space' = found.space
               /\ sample_bids' = IF ~ best_candidate_space_init
                                   THEN SortedSample(profile, sample1)
                                 ELSE << >>
               /\ candidate' = None
               /\ sent' = NoAction
               /\ UNCHANGED <<last_offered_bid, best_candidate_space_final>>
          ELSE /\ best_candidate_space' = space2
               /\ best_candidate_space_final' =
                    (best_candidate_space_final \/ Len(received_bids) = CheckpointSecond)
               /\ sample_bids' = IF AtCheckpoint(received_bids)
                                   THEN SortedSample(profile, sample2)
                                 ELSE IF ~ best_candidate_space_init
                                   THEN SortedSample(profile, sample1)
                                 ELSE << >>
               /\ candidate' = found.bid
               /\ IF verdict = "fail"
                    THEN /\ pc' = "failed"
                         /\ failure' = "AttributeError: getUtility(None) at line 375"
                         /\ sent' = NoAction
                         /\ UNCHANGED last_offered_bid
                  ELSE IF verdict = "accept"
                    THEN /\ pc' = "accepted"
                         /\ failure' = ""
                         /\ sent' = Accept(last_received_bid)
                         /\ UNCHANGED last_offered_bid
                    ELSE /\ pc' = pc
                         /\ failure' = ""
                         /\ last_offered_bid' = found.bid
                         /\ sent' = Offer(found.bid)
     /\ UNCHANGED <<profile, history, recognition, returned>>

\* notifyChange(YourTurn), the samples of the refreshes drawn from samples
YourTurnWith(p, samples) ==
  /\ pc = "running"
  /\ p >= progress
  /\ event' = "YourTurn"
  /\ \E sample1 \in IF best_candidate_space_init THEN {<< >>} ELSE samples,
        sample2 \in IF AtCheckpoint(received_bids) THEN samples ELSE {<< >>} :
       my_turn(p, sample1, sample2)
YourTurn(p) == YourTurnWith(p, Samples)

\* notifyChange(Finished): save_data and terminate
Finished ==
  /\ pc \in {"running", "closing", "accepted"}
  /\ pc' = "finished"
  /\ event' = "Finished"
  /\ sent' = NoAction
  /\ failure' = ""
  /\ candidate' = None
  /\ sample_bids' = << >>
  /\ UNCHANGED <<profile, progress, history, last_offered_bid, opponent_stubborn,
                 recognition, space_vars, returned>>

\* A session: the events arrive in any order, the clock never runs backwards.
Next ==
  \/ \E prof \in Profiles : Settings(prof)
  \/ \E bid \in all_bids, p \in ProgressPoints : OpponentOffer(bid, p, MaxReceived)
  \/ OpponentOther
  \/ OwnActionDone
  \/ \E p \in ProgressPoints : YourTurn(p)
  \/ Finished

Spec == Init /\ [][Next]_vars

\* ----------------------------------------------------------------------
\* A session through the probing window: the parties alternate, the opponent
\* never lowers the utility it offers the agent (it repeats or concedes), and
\* the session is still in its opening or bargaining phase.
ProbeLength == WindowLast + 1
ProbePoints == {100, 300}
ProbeSamples == { [j \in 1 .. NumSamples |-> ((j - 1) % NumBids) + 1] }
ProbeOffer(bid, p) ==
  /\ event \in {"Settings", "YourTurn"}
  /\ received_bids # << >> =>
       getUtility(profile, bid) >= getUtility(profile, last_received_bid)
  /\ OpponentOffer(bid, p, ProbeLength)
ProbeTurn(p) ==
  /\ event \in {"Settings", "OpponentOffer"}
  /\ YourTurnWith(p, ProbeSamples)
NextProbe ==
  \/ \E prof \in Profiles : Settings(prof)
  \/ \E bid \in all_bids, p \in ProbePoints : ProbeOffer(bid, p)
  \/ \E p \in ProbePoints : ProbeTurn(p)
  \/ Finished
SpecProbe == Init /\ [][NextProbe]_vars

\* ----------------------------------------------------------------------
\* A long session, past the last checkpoint of my_turn: the parties
\* alternate, the agent takes a turn after every received offer, the
\* opponent repeats one bid, and the session is still in its opening or
\* bargaining phase.  A refresh draws a sample that goes round the outcome
\* space, or one of the bids without the first issue's better value.
LongLength == CheckpointFourth + 1
LongOffers == {1}
LongSamples == ProbeSamples \cup { [j \in 1 .. NumSamples |-> 1 + 2 * (j % 2)] }
LongOffer(bid, p) ==
  /\ event \in {"Settings", "YourTurn"}
  /\ OpponentOffer(bid, p, LongLength)
LongTurn(p) ==
  /\ event \in {"Settings", "OpponentOffer"}
  /\ YourTurnWith(p, LongSamples)
NextLong ==
  \/ \E prof \in Profiles : Settings(prof)
  \/ \E bid \in LongOffers, p \in ProbePoints : LongOffer(bid, p)
  \/ \E p \in ProbePoints : LongTurn(p)
  \/ Finished
SpecLong == Init /\ [][NextLong]_vars

\* ----------------------------------------------------------------------
\* Direct calls of the methods on a party that a test has put in a given
\* state.  What the handlers keep in step is in step in that state: the
\* opponent model, the last bids, the fallback bid and the opponent's
\* recognition history are those of the received offers.
SeqsUpTo(S, n) == UNION {[1 .. k -> S] : k \in 0 .. n}
\* The opponent model after the offers rb (lines 247-251)
ModelOf(rb) ==
  [exists |-> rb # << >>,
   counts |-> [i \in Issues |-> [v \in Values |->
                 Cardinality({j \in 1 .. Len(rb) : getValue(rb[j], i) = v})]]]
\* The fallback after the offers rb: the first received bid of the largest
\* own utility, when that is above 0 (lines 262-265)
BestReceived(prof, rb) ==
  LET best == {j \in 1 .. Len(rb) :
                 /\ getUtility(prof, rb[j]) > 0
                 /\ \A k \in 1 .. Len(rb) : getUtility(prof, rb[k]) <= getUtility(prof, rb[j])}
  IN IF best = {} THEN None ELSE rb[CHOOSE j \in best : \A k \in best : j <= k]
Fixture(prof, p, rb, lob, h, hyp, label, space) ==
  /\ pc = "running"
  /\ profile = prof
  /\ progress = p
  /\ received_bids = rb
  /\ last_received_bid = IF rb = << >> THEN None ELSE rb[Len(rb)]
  /\ last_last_received_bid = IF rb = << >> THEN None
                              ELSE IF Len(rb) = 1 THEN rb[1] ELSE rb[Len(rb) - 1]
  /\ opponent_model = ModelOf(rb)
  /\ social_welfare_bid = BestReceived(prof, rb)
  /\ social_welfare_value = IF BestReceived(prof, rb) = None THEN 0
                            ELSE getUtility(prof, BestReceived(prof, rb))
  /\ opponent_stubborn = FALSE
  /\ last_offered_bid = lob
  /\ recognition_h_bid_history = h
  /\ recognition_o_bid_history =
       SubSeq(rb, WindowFirst, IF Len(rb) < WindowLast THEN Len(rb) ELSE WindowLast)
  /\ opponent_hypothesis = hyp
  /\ recognized_strategy = label
  /\ best_candidate_space = space
  /\ best_candidate_space_init = (space # << >>)
  /\ best_candidate_space_final = FALSE
  /\ refreshes = (IF space # << >> THEN 1 ELSE 0)
  /\ returned = NoCall
  /\ event = "fixture"
  /\ sent = NoAction
  /\ failure = ""
  /\ candidate = None
  /\ sample_bids = << >>

\* The recognizer under direct calls, one call on each state.  The party has
\* received nine offers that went round the outcome space and then up to
\* three offers of the probing window; its probe-bid history holds up to
\* MaxProbes bids.
MaxProbes == 3
RecogPoints == {100}
RecogOffers == {1, 4}
RecogProbes == {2, 4}
\* The hypothesis and the label together: a label other than R goes with
\* the hypothesis it is concluded under (lines 477, 563, 570)
RecognitionStates ==
  {hl \in Hypotheses \X (Labels \cup {"None"}) :
     hl[2] \in {"None", "R"} \/ hl[1] = {hl[2], "R"}}
OpeningOffers == [j \in 1 .. WindowFirst - 1 |-> ((j - 1) % NumBids) + 1]
InitRecog ==
  \E prof \in Profiles, p \in RecogPoints,
     o \in SeqsUpTo(RecogOffers, WindowLast - WindowFirst),
     h \in SeqsUpTo(RecogProbes, MaxProbes),
     hl \in RecognitionStates, sample \in ProbeSamples :
    LET space == initialize_bid_space(prof, ModelOf(OpeningOffers), "None", << >>, sample)
    IN Fixture(prof, p, OpeningOffers \o o, space[1], h, hl[1], hl[2], space)
\* self.update_strategy_recognition()
CallUpdateStrategyRecognition ==
  \E rec \in {update_strategy_recognition(profile, opponent_model, progress,
                recognition_h_bid_history, recognition_o_bid_history,
                opponent_hypothesis, recognized_strategy)} :
     /\ pc = "running"
     /\ event = "fixture"
     /\ event' = "update_strategy_recognition"
     /\ opponent_hypothesis' = rec.hyp
     /\ recognized_strategy' = rec.label
     /\ failure' = rec.fail
     /\ pc' = IF rec.fail = "" THEN pc ELSE "failed"
     /\ sent' = NoAction
     /\ candidate' = None
     /\ sample_bids' = << >>
     /\ UNCHANGED <<profile, progress, history, last_offered_bid, opponent_stubborn,
                    recognition_h_bid_history, recognition_o_bid_history, space_vars,
                    returned>>
\* self.strategy_recognition_move(), rnd the bid its randint picks
CallStrategyRecognitionMove(rnd) ==
  \E r \in {strategy_recognition_move(profile, opponent_model, progress,
              best_candidate_space, last_offered_bid, opponent_stubborn, received_bids,
              social_welfare_bid, recognition_h_bid_history, recognition_o_bid_history,
              opponent_hypothesis, recognized_strategy, rnd)} :
     /\ pc = "running"
     /\ event = "fixture"
     /\ event' = "strategy_recognition_move"
     /\ opponent_hypothesis' = r.hyp
     /\ recognized_strategy' = r.label
     /\ best_candidate_space' = r.space
     /\ opponent_stubborn' = r.stubborn
     /\ candidate' = r.bid
     /\ failure' = r.fail
     /\ pc' = IF r.fail = "" THEN pc ELSE "failed"
     /\ sent' = NoAction
     /\ sample_bids' = << >>
     /\ UNCHANGED <<profile, progress, history, last_offered_bid,
                    recognition_h_bid_history, recognition_o_bid_history,
                    best_candidate_space_init, best_candidate_space_final, refreshes,
                    returned>>
\* self.final_strategy_analysis()
CallFinalStrategyAnalysis ==
  \E r \in {final_strategy_analysis(profile, opponent_model, recognition_o_bid_history,
              opponent_hypothesis, recognized_strategy)} :
     /\ pc = "running"
     /\ event = "fixture"
     /\ event' = "final_strategy_analysis"
     /\ recognized_strategy' = r.label
     /\ failure' = r.fail
     /\ pc' = IF r.fail = "" THEN pc ELSE "failed"
     /\ sent' = NoAction
     /\ candidate' = None
     /\ sample_bids' = << >>
     /\ UNCHANGED <<profile, progress, history, last_offered_bid, opponent_stubborn,
                    recognition_h_bid_history, recognition_o_bid_history,
                    opponent_hypothesis, space_vars, returned>>
NextRecog ==
  \/ CallUpdateStrategyRecognition
  \/ \E rnd \in all_bids : CallStrategyRecognitionMove(rnd)
  \/ CallFinalStrategyAnalysis
  \/ \E bid \in RecogOffers : event = "fixture" /\ OpponentOffer(bid, progress, ProbeLength)
  \/ event = "fixture" /\ YourTurnWith(progress, ProbeSamples)
SpecRecog == InitRecog /\ [][NextRecog]_vars

\* The final analysis under direct calls, one call on each state.  The party
\* is at its fourth probe round: three probe bids are recorded, and the
\* opponent's window history holds two offers or more, up to the whole window.
WindowLength == WindowLast - WindowFirst + 1
InitFinal ==
  \E prof \in Profiles, p \in RecogPoints,
     n \in 2 .. WindowLength, hl \in RecognitionStates, sample \in ProbeSamples :
  \E o \in [1 .. n -> RecogOffers], h \in [1 .. WindowLength - 1 -> RecogProbes] :
    LET space == initialize_bid_space(prof, ModelOf(OpeningOffers), "None", << >>, sample)
    IN Fixture(prof, p, OpeningOffers \o o, space[1], h, hl[1], hl[2], space)
NextFinal ==
  \/ CallFinalStrategyAnalysis
  \/ \E rnd \in all_bids : CallStrategyRecognitionMove(rnd)
SpecFinal == InitFinal /\ [][NextFinal]_vars

\* The candidate space under direct calls, one call on each state.  The
\* party has received no, one or two offers, or MinHistory or MinHistory + 1
\* offers that repeat one bid and end with another.
MaxList == 3
SpaceProfiles == { <<800, 200>>, <<500, 500>> }
SpaceHistories ==
  SeqsUpTo(all_bids, 2)
    \cup {[j \in 1 .. n |-> IF j < n THEN f ELSE g] :
            n \in {MinHistory, MinHistory + 1}, f \in {1, NumBids}, g \in all_bids}
InitSpace ==
  \E prof \in SpaceProfiles, rb \in SpaceHistories, label \in Labels \cup {"None"} :
    Fixture(prof, 100, rb, None, << >>, NoHypothesis, label, << >>)
\* self.initialize_bid_space(), sample the bids its randint draws
CallInitializeBidSpace(sample) ==
  /\ pc = "running"
  /\ event = "fixture"
  /\ event' = "initialize_bid_space"
  /\ best_candidate_space' = initialize_bid_space(profile, opponent_model,
                               recognized_strategy, received_bids, sample)
  /\ sample_bids' = SortedSample(profile, sample)
  /\ refreshes' = refreshes + 1
  /\ returned' = [bids |-> sample, result |-> << >>]
  /\ sent' = NoAction
  /\ failure' = ""
  /\ candidate' = None
  /\ UNCHANGED <<pc, profile, progress, history, last_offered_bid, opponent_stubborn,
                 recognition, best_candidate_space_init, best_candidate_space_final>>
\* self._pareto_filter(bids); _dominates needs the opponent model as soon as
\* the list holds two bids that differ
CallParetoFilter(bids) ==
  LET absent == ~ opponent_model.exists /\ \E j, k \in 1 .. Len(bids) : bids[j] # bids[k]
  IN /\ pc = "running"
     /\ event = "fixture"
     /\ event' = "_pareto_filter"
     /\ returned' = [bids |-> bids,
                     result |-> IF absent THEN << >>
                                ELSE pareto_filter(profile, opponent_model, bids)]
     /\ failure' = IF absent THEN "AttributeError: opponent_model is None at line 133"
                   ELSE ""
     /\ pc' = IF absent THEN "failed" ELSE pc
     /\ sent' = NoAction
     /\ candidate' = None
     /\ sample_bids' = << >>
     /\ UNCHANGED <<profile, progress, history, last_offered_bid, opponent_stubborn,
                    recognition, space_vars>>
NextSpace ==
  \/ \E sample \in Samples : CallInitializeBidSpace(sample)
  \/ \E bids \in SeqsUpTo(all_bids, MaxList) : CallParetoFilter(bids)
SpecSpace == InitSpace /\ [][NextSpace]_vars

\* The scorer and the move classifier under direct calls, one call on each
\* state.  The party has received up to MaxReceived offers; the clock is at
\* the start, in the opening, late, or at the end of the session.  The
\* second and third profile have two bids 0.002 and 0.003 apart.
CallProfiles == { <<800, 200>>, <<998, 2>>, <<997, 3>> }
CallPoints == {0, 100, 960, One}
InitCalls ==
  \E prof \in CallProfiles, p \in CallPoints, rb \in SeqsUpTo(all_bids, MaxReceived) :
    Fixture(prof, p, rb, None, << >>, NoHypothesis, "None", << >>)
\* self.score_bid(bid)
CallScoreBid(bid) ==
  /\ pc = "running"
  /\ event = "fixture"
  /\ event' = "score_bid"
  /\ returned' = [bids |-> <<bid>>,
                  result |-> <<score_bid(profile, opponent_model, progress, bid)>>]
  /\ sent' = NoAction
  /\ failure' = ""
  /\ candidate' = None
  /\ sample_bids' = << >>
  /\ UNCHANGED <<pc, profile, progress, history, last_offered_bid, opponent_stubborn,
                 recognition, space_vars>>
\* self.classify_opponent_move(old_bid, new_bid); line 528 reads the opponent
\* model before any comparison
CallClassifyOpponentMove(old_bid, new_bid) ==
  LET absent == ~ opponent_model.exists
  IN /\ pc = "running"
     /\ event = "fixture"
     /\ event' = "classify_opponent_move"
     /\ returned' = [bids |-> <<old_bid, new_bid>>,
                     result |-> IF absent THEN << >>
                                ELSE <<classify_opponent_move(profile, opponent_model,
                                                              old_bid, new_bid)>>]
     /\ failure' = IF absent THEN "AttributeError: opponent_model is None at line 528"
                   ELSE ""
     /\ pc' = IF absent THEN "failed" ELSE pc
     /\ sent' = NoAction
     /\ candidate' = None
     /\ sample_bids' = << >>
     /\ UNCHANGED <<profile, progress, history, last_offered_bid, opponent_stubborn,
                    recognition, space_vars>>
NextCalls ==
  \/ \E bid \in all_bids : CallScoreBid(bid)
  \/ \E old_bid \in all_bids, new_bid \in all_bids :
       CallClassifyOpponentMove(old_bid, new_bid)
SpecCalls == InitCalls /\ [][NextCalls]_vars

\* ================================================================ claims
\* The clauses of the acceptance rule, for a received bid and a candidate
\* that are bids
BetterScore(bid, next_bid) ==
  score_bid(profile, opponent_model, progress, bid)
    > score_bid(profile, opponent_model, progress, next_bid)
StubbornFallback(bid) ==
  progress > NearDeadline /\ opponent_stubborn
    /\ getUtility(profile, bid) > social_welfare_value
\* accept_condition in the current state
AcceptsNow(bid, next_bid) ==
  accept_condition(profile, opponent_model, progress, opponent_stubborn,
                   social_welfare_value, bid, next_bid)

\* C1: whenever my_turn decides on a received bid that is not None at a
\* progress above 0.99, accept_condition returns accept and the Accept is sent.
C1_ForcedAgreement ==
  (event = "YourTurn" /\ last_received_bid # None /\ progress > FinalThreshold)
    => sent = Accept(last_received_bid)

\* C2: every YourTurn is handled without a failure and sends exactly one
\* action, the Accept of the last received bid or the Offer of a bid.
C2_TurnEmitsAction ==
  event = "YourTurn" =>
    /\ failure = ""
    /\ \/ sent = Accept(last_received_bid) /\ last_received_bid # None
       \/ sent.kind = "Offer" /\ sent.bid # None

\* my_turn has just decided: accept_condition has run in this state, with
\* this progress, opponent model, stubborn flag and fallback value
Decided == event = "YourTurn" /\ failure = ""
ScoreNow(bid) == score_bid(profile, opponent_model, progress, bid)

\* C3 as stated: in a fixed state and for a fixed candidate, if received bid
\* A is accepted then so is every received bid B of at least A's score.
C3_MonotoneInScore ==
  Decided =>
    \A c \in all_bids, A \in all_bids :
      AcceptsNow(A, c) = "accept" =>
        \A B \in all_bids :
          ScoreNow(B) >= ScoreNow(A) => AcceptsNow(B, c) = "accept"
\* C3 as amended: if A is accepted then so is every B of at least A's score
\* and at least A's own utility.
C3_MonotoneInScoreAndUtility ==
  Decided =>
    \A c \in all_bids, A \in all_bids :
      AcceptsNow(A, c) = "accept" =>
        \A B \in all_bids :
          (getUtility(profile, B) >= getUtility(profile, A)
             /\ ScoreNow(B) >= ScoreNow(A))
            => AcceptsNow(B, c) = "accept"
\* my_turn has decided late in the session, in a state where a bid is
\* accepted for its own utility and not for its score, and another bid is at
\* least as good in score and in own utility.
C3_Witness ==
  /\ Decided
  /\ progress > LateThreshold
  /\ progress <= FinalThreshold
  /\ \E A \in all_bids, B \in all_bids, c \in all_bids :
       /\ A # B
       /\ AcceptsNow(A, c) = "accept"
       /\ ~ BetterScore(A, c)
       /\ ScoreNow(B) >= ScoreNow(A)
       /\ getUtility(profile, B) >= getUtility(profile, A)

\* C4 as stated: a received bid that is not None is accepted exactly when
\* (1) it scores above the candidate, or (2) its own utility is >= 0.8 and
\* progress > 0.95, or (3) progress > 0.98, the opponent is stubborn and its
\* own utility is above the fallback's, or (4) progress > 0.99; None is rejected.
C4_AcceptExactlyWhen ==
  Decided =>
    /\ \A c \in all_bids : AcceptsNow(None, c) = "reject"
    /\ \A bid \in all_bids, c \in all_bids :
         AcceptsNow(bid, c) = "accept" <=>
           \/ progress > FinalThreshold
           \/ getUtility(profile, bid) >= AcceptFloor /\ progress > LateThreshold
           \/ StubbornFallback(bid)
           \/ BetterScore(bid, c)
\* C4 as amended: clause (2) asks for an own utility strictly above 0.8; the
\* call returns for every candidate that is a bid, and raises when the
\* candidate is None and the received bid is not.
C4_AcceptExactlyWhenStrict ==
  Decided =>
    /\ \A c \in BidOrNone : AcceptsNow(None, c) = "reject"
    /\ \A bid \in all_bids : AcceptsNow(bid, None) = "fail"
    /\ \A bid \in all_bids, c \in all_bids :
         AcceptsNow(bid, c) =
           IF \/ progress > FinalThreshold
              \/ getUtility(profile, bid) > AcceptFloor /\ progress > LateThreshold
              \/ StubbornFallback(bid)
              \/ BetterScore(bid, c)
             THEN "accept" ELSE "reject"
\* my_turn has decided late in the session, in a state where a bid of own
\* utility exactly 0.8 is rejected and a bid above 0.8 is accepted for its
\* own utility against the same candidate.
C4_Witness ==
  /\ Decided
  /\ progress > LateThreshold
  /\ \E bid \in all_bids, better \in all_bids, c \in all_bids :
       /\ getUtility(profile, bid) = AcceptFloor
       /\ AcceptsNow(bid, c) = "reject"
       /\ ~ BetterScore(better, c)
       /\ AcceptsNow(better, c) = "accept"

\* C10: no handler reads the predicted utility of an absent opponent model.
C10_NoAbsentModelRead ==
  failure # "AttributeError: opponent_model is None at line 353"

\* The received bids of the probing window, the 10th to the 13th
WindowOffers == SubSeq(received_bids, WindowFirst, WindowLast)
\* Each offer of the window raises the agent's own utility by at least 0.05
SteadyConcession ==
  /\ Len(received_bids) >= WindowLast
  /\ \A j \in 1 .. Len(WindowOffers) - 1 :
       getUtility(profile, WindowOffers[j + 1]) - getUtility(profile, WindowOffers[j]) >= 50

\* C5: once the agent has taken its turn after the last offer of a probing
\* window of steady concessions, the recognized strategy is CC.
C5_ConcederRecognized ==
  (SteadyConcession /\ event = "YourTurn") => recognized_strategy = "CC"

\* C6: a YourTurn inside the probing window takes its candidate from the
\* probe protocol and appends it to the probe-bid history.
C6_ProbeInWindow ==
  (event = "YourTurn" /\ failure = ""
     /\ WindowFirst <= Len(received_bids) /\ Len(received_bids) <= WindowLast)
    => /\ recognition_h_bid_history # << >>
       /\ recognition_h_bid_history[Len(recognition_h_bid_history)] = candidate

\* C7: a recognized strategy that is set is never changed, by no call of
\* update_strategy_recognition, strategy_recognition_move,
\* final_strategy_analysis, opponent_action or my_turn.
C7_LabelTerminal ==
  [][recognized_strategy # "None" => recognized_strategy' = recognized_strategy]_vars
\* update_strategy_recognition has run with a label set, three probes and
\* three window offers in the histories, where the round-3 analysis of an
\* unlabelled opponent concludes another label.
C7_Witness ==
  /\ event = "update_strategy_recognition"
  /\ recognized_strategy \in Labels
  /\ Len(recognition_h_bid_history) >= 3
  /\ Len(recognition_o_bid_history) >= 3
  /\ RoundThree(profile, opponent_model, progress, recognition_h_bid_history,
                recognition_o_bid_history, opponent_hypothesis, "None").label
       \notin {"None", recognized_strategy}

\* C8: after initialize_bid_space has run with the recognized strategy unset
\* or R, or with at most 100 received offers, the candidate space is the first
\* 150 bids of the drawn sample in descending order of own utility.
C8_TopByOwnUtility ==
  (event = "initialize_bid_space"
     /\ (recognized_strategy \in {"None", "R"} \/ Len(received_bids) <= MinHistory))
    => /\ \A b \in all_bids :
            Cardinality({j \in 1 .. Len(sample_bids) : sample_bids[j] = b})
              = Cardinality({j \in 1 .. Len(returned.bids) : returned.bids[j] = b})
       /\ \A j \in 1 .. Len(sample_bids) - 1 :
            getUtility(profile, sample_bids[j]) >= getUtility(profile, sample_bids[j + 1])
       /\ best_candidate_space = Prefix(sample_bids, TopN)
\* initialize_bid_space has run for a recognized strategic opponent after
\* exactly 100 offers, on a sample that the refinement would rank otherwise.
C8_Witness ==
  /\ event = "initialize_bid_space"
  /\ recognized_strategy \in {"HH", "CC", "TT"}
  /\ Len(received_bids) = MinHistory
  /\ best_candidate_space # RefinedSpace(profile, opponent_model, sample_bids)

\* x is weakly better than y on both utilities and strictly better on one
ParetoDominates(x, y) ==
  /\ getUtility(profile, x) >= getUtility(profile, y)
  /\ get_predicted_utility(opponent_model, x) >= get_predicted_utility(opponent_model, y)
  /\ \/ getUtility(profile, x) > getUtility(profile, y)
     \/ get_predicted_utility(opponent_model, x) > get_predicted_utility(opponent_model, y)
\* C9: the list _pareto_filter returns holds no two bids of which one
\* dominates the other, and filtering it again returns the same list.
C9_ParetoFrontier ==
  (event = "_pareto_filter" /\ failure = "") =>
    /\ \A j \in 1 .. Len(returned.result), k \in 1 .. Len(returned.result) :
         \/ returned.result[j] = returned.result[k]
         \/ ~ ParetoDominates(returned.result[j], returned.result[k])
    /\ pareto_filter(profile, opponent_model, returned.result) = returned.result
\* _pareto_filter has dropped a dominated bid from a list and kept two bids
\* that do not dominate each other.
C9_Witness ==
  /\ event = "_pareto_filter"
  /\ failure = ""
  /\ Len(returned.result) < Len(returned.bids)
  /\ \E j \in 1 .. Len(returned.result), k \in 1 .. Len(returned.result) :
       returned.result[j] # returned.result[k]

\* The last element of a list, None for the empty list
LastOf(s) == IF s = << >> THEN None ELSE s[Len(s)]
\* C11: the received-offer history is append-only.  Every opponent Offer
\* appends exactly one bid at the end of received_bids, no other step changes
\* received_bids, and in every state last_received_bid is the last element of
\* received_bids, None exactly when received_bids is empty.
C11_AppendOnly ==
  /\ [](/\ last_received_bid = LastOf(received_bids)
        /\ (last_received_bid = None) <=> (received_bids = << >>))
  /\ [][IF event' = "OpponentOffer"
          THEN /\ Len(received_bids') = Len(received_bids) + 1
               /\ SubSeq(received_bids', 1, Len(received_bids)) = received_bids
          ELSE received_bids' = received_bids]_vars
\* opponent_action has appended a second offer that differs from the first.
C11_Witness ==
  /\ event = "OpponentOffer"
  /\ Len(received_bids) >= 2
  /\ received_bids[Len(received_bids)] # received_bids[1]

\* The largest own utility of the bids of a list that is not empty
MaxUtility(prof, s) ==
  CHOOSE m \in {getUtility(prof, s[j]) : j \in 1 .. Len(s)} :
    \A j \in 1 .. Len(s) : getUtility(prof, s[j]) <= m
\* C12: once an offer has been received, the fallback bid is not None, is one
\* of the received bids, and social_welfare_value is its own utility and the
\* largest own utility of all received bids.
C12_FallbackIsBest ==
  received_bids # << >> =>
    /\ social_welfare_bid # None
    /\ social_welfare_bid \in Range(received_bids)
    /\ social_welfare_value = MaxUtility(profile, received_bids)

\* The predicted opponent utility that score_bid adds is the same for x and
\* y: the model predicts the same, or there is no model and nothing is added
SamePrediction(x, y) ==
  opponent_model.exists =>
    get_predicted_utility(opponent_model, x) = get_predicted_utility(opponent_model, y)
\* C13: at a fixed progress in [0, 1] and a fixed predicted opponent utility,
\* the score score_bid returns for a bid is at most the score of every bid of
\* at least its own utility, and at least the score of every bid of at most
\* its own utility.
C13_ScoreMonotoneInOwnUtility ==
  event = "score_bid" =>
    \A b \in all_bids :
      SamePrediction(returned.bids[1], b) =>
        /\ getUtility(profile, returned.bids[1]) <= getUtility(profile, b)
             => returned.result[1] <= ScoreNow(b)
        /\ getUtility(profile, b) <= getUtility(profile, returned.bids[1])
             => ScoreNow(b) <= returned.result[1]
\* score_bid has scored a bid while a model exists that predicts the same
\* for another bid of larger own utility, which scores strictly more.
C13_Witness ==
  /\ event = "score_bid"
  /\ opponent_model.exists
  /\ \E b \in all_bids :
       /\ SamePrediction(returned.bids[1], b)
       /\ getUtility(profile, returned.bids[1]) < getUtility(profile, b)
       /\ returned.result[1] < ScoreNow(b)

ClaimedCheckpoints == {CheckpointSecond, CheckpointThird, CheckpointFourth}
\* C14: initialize_bid_space runs in the agent's first YourTurn and in every
\* YourTurn taken with exactly 300, 600 or 900 received offers, and in no
\* other step; and when the agent takes a turn after every received offer,
\* after each of its turns the space has been refreshed once at the start and
\* once for every checkpoint the history has reached.
C14_RefreshAtCheckpoints ==
  /\ [][(refreshes' # refreshes) <=>
          /\ event' = "YourTurn"
          /\ \/ ~ best_candidate_space_init
             \/ Len(received_bids) \in ClaimedCheckpoints]_vars
  /\ []((event = "YourTurn" /\ failure = "") =>
          refreshes = 1 + Cardinality({c \in ClaimedCheckpoints : c <= Len(received_bids)}))
\* The agent has taken its turn after the offer that follows the last
\* checkpoint, and the space has been refreshed four times.
C14_Witness ==
  /\ event = "YourTurn"
  /\ failure = ""
  /\ Len(received_bids) = CheckpointFourth + 1
  /\ refreshes = 4

\* How many times bid b occurs in the list s
CountIn(s, b) == Cardinality({j \in 1 .. Len(s) : s[j] = b})
\* C15: after a step that refreshed the candidate space, the space holds at
\* most 150 (here TopN) bids, each of them a bid of the sample that refresh
\* drew; a step that does not refresh leaves the space with the same members,
\* in whatever order.
C15_SpaceFromFreshSample ==
  /\ [][IF refreshes' # refreshes
          THEN /\ Len(best_candidate_space') <= TopN
               /\ Range(best_candidate_space') \subseteq Range(sample_bids')
          ELSE \A b \in all_bids :
                 CountIn(best_candidate_space', b) = CountIn(best_candidate_space, b)]_vars
\* The agent has taken its turn at the first checkpoint: the candidate it
\* found in the old space is not in the sample of the refresh, and the
\* refreshed space does not hold it.
C15_Witness ==
  /\ event = "YourTurn"
  /\ failure = ""
  /\ Len(received_bids) = CheckpointSecond
  /\ refreshes = 2
  /\ candidate \notin Range(sample_bids)
  /\ candidate \notin Range(best_candidate_space)
  /\ best_candidate_space # << >>

\* The bids of s of the largest key
ArgMax(s, key) == {b \in s : \A c \in s : key[c] <= key[b]}
\* C17: a YourTurn in the opening phase (progress < 0.3) of an agent that has
\* made an offer takes as its candidate a bid of the largest score among the
\* bids of the candidate space whose own utility is at least the previous
\* offer's, and the previous offer when there is no such bid.
C17_OpeningPicksBestScore ==
  [][(event' = "YourTurn" /\ failure' = "" /\ progress' < OpeningEnd
        /\ last_offered_bid # None) =>
       LET qualifying == {b \in Range(best_candidate_space) :
                            getUtility(profile, b) >= getUtility(profile, last_offered_bid)}
       IN IF qualifying = {} THEN candidate' = last_offered_bid
          ELSE candidate' \in ArgMax(qualifying, [b \in all_bids |->
                                 score_bid(profile, opponent_model, progress', b)])]_vars

\* C18: a YourTurn in the bargaining phase (0.3 <= progress < 0.98) takes as
\* its candidate a bid of the largest predicted opponent utility among the
\* bids of the candidate space whose own utility is at least 90% of the
\* previous offer's, and the previous offer when there is no such bid.
C18_BargainingPicksBestForOpponent ==
  [][(event' = "YourTurn" /\ failure' = "" /\ progress' >= OpeningEnd
        /\ progress' < NearDeadline /\ last_offered_bid # None) =>
       LET qualifying == {b \in Range(best_candidate_space) :
                            10 * getUtility(profile, b) >= 9 * getUtility(profile, last_offered_bid)}
       IN IF qualifying = {} THEN candidate' = last_offered_bid
          ELSE /\ opponent_model.exists
               /\ candidate' \in ArgMax(qualifying, [b \in all_bids |->
                                    get_predicted_utility(opponent_model, b)])]_vars

\* C19: a YourTurn in the endgame (progress >= 0.98) with a history that is
\* not empty sets opponent_stubborn and takes the fallback, the received bid
\* of the largest own utility, when the average predicted opponent utility of
\* the received bids exceeds their average own utility by more than 0.4 or
\* their average own utility is below 0.4; otherwise it takes the last offered
\* bid and leaves opponent_stubborn alone.  No other step changes
\* opponent_stubborn, and no step resets it.
C19_EndgameFallback ==
  [][/\ (event' = "YourTurn" /\ progress' >= NearDeadline /\ received_bids # << >>) =>
          LET n == Len(received_bids)
              sum_opp == SumSeq(received_bids, [b \in all_bids |->
                           get_predicted_utility(opponent_model, b)], n)
              sum_my == SumSeq(received_bids, [b \in all_bids |-> getUtility(profile, b)], n)
          IN IF sum_opp - sum_my > StubbornGap * n \/ sum_my < ReservationValue * n
               THEN /\ opponent_stubborn'
                    /\ candidate' = social_welfare_bid
                    /\ candidate' \in Range(received_bids)
                    /\ getUtility(profile, candidate') = MaxUtility(profile, received_bids)
               ELSE /\ candidate' = last_offered_bid
                    /\ opponent_stubborn' = opponent_stubborn
     /\ ~ (event' = "YourTurn" /\ progress' >= NearDeadline) =>
          opponent_stubborn' = opponent_stubborn
     /\ opponent_stubborn => opponent_stubborn']_vars

\* The opponent moves the spec calls non-escalating: silent or a concession
ClaimedNonEscalating == {"silent", "concession", "small_concession"}
\* C20: a call of update_strategy_recognition with the hypothesis unset and
\* at least two probe bids and two window offers recorded (and no round-3
\* analysis due) sets the hypothesis to {HH, R} exactly when
\* sigma_opp <= |sigma_self| and the opponent's move is silent or a
\* concession, and otherwise to {CC, R, TT} when sigma_opp >= sigma_self.
C20_RoundTwoHypothesis ==
  [][(/\ event' = "update_strategy_recognition"
      /\ failure' = ""
      /\ opponent_hypothesis = NoHypothesis
      /\ Len(recognition_h_bid_history) >= 2
      /\ Len(recognition_o_bid_history) >= 2
      /\ (Len(recognition_h_bid_history) < 3 \/ Len(recognition_o_bid_history) < 3)) =>
       LET sigma_opp == ScoreNow(recognition_o_bid_history[2])
                          - ScoreNow(recognition_o_bid_history[1])
           sigma_self == ScoreNow(recognition_h_bid_history[2])
                           - ScoreNow(recognition_h_bid_history[1])
           move == classify_opponent_move(profile, opponent_model,
                     recognition_o_bid_history[1], recognition_o_bid_history[2])
       IN opponent_hypothesis' =
            IF sigma_opp <= Abs(sigma_self) /\ move \in ClaimedNonEscalating
              THEN {"HH", "R"}
            ELSE IF sigma_opp >= sigma_self THEN {"CC", "R", "TT"}
            ELSE NoHypothesis]_vars

\* C21: the final analysis, run at the fourth probe round with no label set
\* and the whole probing window received, decides on the opponent's final
\* move, the move between the last two offers of the window: under {TT, R} a
\* silent final move gives TT and any other R; under {CC, R} a silent or
\* concession final move gives CC and any other R; under any other
\* hypothesis or none the label is R.
C21_FinalMoveDecides ==
  [][(/\ event' \in {"final_strategy_analysis", "strategy_recognition_move"}
      /\ failure' = ""
      /\ recognized_strategy = "None"
      /\ Len(recognition_h_bid_history) = WindowLength - 1
      /\ Len(recognition_o_bid_history) = WindowLength) =>
       LET final_move == classify_opponent_move(profile, opponent_model,
                           recognition_o_bid_history[WindowLength - 1],
                           recognition_o_bid_history[WindowLength])
       IN recognized_strategy' =
            IF opponent_hypothesis = {"TT", "R"}
              THEN IF final_move = "silent" THEN "TT" ELSE "R"
            ELSE IF opponent_hypothesis = {"CC", "R"}
              THEN IF final_move \in {"silent", "concession"} THEN "CC" ELSE "R"
            ELSE "R"]_vars

\* The hypotheses and their narrowings in the spec's state machine
ClaimedHypotheses ==
  {NoHypothesis, {"HH", "R"}, {"CC", "R", "TT"}, {"TT", "R"}, {"CC", "R"}}
ClaimedEdges ==
  { <<NoHypothesis, {"HH", "R"}>>, <<NoHypothesis, {"CC", "R", "TT"}>>,
    <<{"CC", "R", "TT"}, {"TT", "R"}>>, <<{"CC", "R", "TT"}, {"CC", "R"}>> }
\* C22: under calls of update_strategy_recognition, strategy_recognition_move
\* and final_strategy_analysis the hypothesis is unset or one of {HH, R},
\* {CC, R, TT}, {TT, R}, {CC, R} and the label unset or one of HH, CC, TT, R;
\* a step changes the hypothesis along unset -> {HH, R}, unset -> {CC, R, TT},
\* {CC, R, TT} -> {TT, R} or {CC, R, TT} -> {CC, R} only (twice in a call
\* that runs both analyses); and a step sets the label HH, TT or CC only
\* under the hypothesis {HH, R}, {TT, R} or {CC, R}.
C22_RecognitionStateMachine ==
  /\ [](/\ opponent_hypothesis \in ClaimedHypotheses
        /\ recognized_strategy \in {"None", "HH", "CC", "TT", "R"})
  /\ [][/\ \/ opponent_hypothesis' = opponent_hypothesis
           \/ <<opponent_hypothesis, opponent_hypothesis'>> \in ClaimedEdges
           \/ \E mid \in ClaimedHypotheses :
                /\ <<opponent_hypothesis, mid>> \in ClaimedEdges
                /\ <<mid, opponent_hypothesis'>> \in ClaimedEdges
        /\ (recognized_strategy' # recognized_strategy
              /\ recognized_strategy' \in {"HH", "TT", "CC"})
             => opponent_hypothesis' = {recognized_strategy', "R"}]_vars
\* update_strategy_recognition has run both analyses on histories that take
\* an unset hypothesis to {CC, R, TT} and on to {TT, R}.
C22_Witness ==
  /\ event = "update_strategy_recognition"
  /\ failure = ""
  /\ recognized_strategy = "None"
  /\ opponent_hypothesis = {"TT", "R"}
  /\ Len(recognition_h_bid_history) >= 3
  /\ Len(recognition_o_bid_history) >= 3
  /\ RoundTwoHypothesis(profile, opponent_model, progress, recognition_h_bid_history,
                        recognition_o_bid_history, NoHypothesis) = {"CC", "R", "TT"}
  /\ classify_opponent_move(profile, opponent_model, recognition_o_bid_history[2],
                            recognition_o_bid_history[3]) = "selfish"

\* No bid occurs twice in the list
NoBidTwice(s) == \A j, k \in 1 .. Len(s) : s[j] = s[k] => j = k
\* C23: in the refinement branch of initialize_bid_space (label HH, CC or TT,
\* more than MinHistory offers received), when the top slice holds no bid
\* twice and its Pareto subset has fewer than TopN members, the padded
\* working set holds no bid twice and has min(TopN, size of the top slice)
\* distinct members.
C23_PaddingDistinct ==
  LET top_candidates == Prefix(sample_bids, TopSlice)
  IN (/\ event = "initialize_bid_space"
      /\ recognized_strategy \in {"HH", "CC", "TT"}
      /\ Len(received_bids) > MinHistory
      /\ NoBidTwice(top_candidates)
      /\ Len(pareto_filter(profile, opponent_model, top_candidates)) < TopN) =>
       LET padded == PaddedPareto(profile, opponent_model, top_candidates)
       IN /\ NoBidTwice(padded)
          /\ Cardinality(Range(padded)) =
               IF TopN < Len(top_candidates) THEN TopN ELSE Len(top_candidates)

\* C24: in every state with a received bid, the own utility of
\* last_received_bid is at most social_welfare_value; and when my_turn has
\* decided on a received bid, acceptance clause (3) (progress > 0.98, opponent
\* stubborn, own utility of the received bid above the fallback value) is
\* false for the bid it passed to accept_condition.
C24_FallbackCoversLastReceived ==
  last_received_bid # None =>
    /\ getUtility(profile, last_received_bid) <= social_welfare_value
    /\ Decided => ~ StubbornFallback(last_received_bid)
\* my_turn has decided past 0.98 with the stubborn flag set, kept offering,
\* and the last received bid is below an earlier one.
C24_Witness ==
  /\ Decided
  /\ last_received_bid # None
  /\ progress > NearDeadline
  /\ opponent_stubborn
  /\ sent.kind = "Offer"
  /\ getUtility(profile, last_received_bid) < social_welfare_value

\* C25: a turn before 0.98 and before the first checkpoint refresh that sends
\* an Offer offers the first bid of the candidate space, and, when the party
\* has offered before, offers its previous offer again and leaves the
\* candidate space as it is: the offers of the opening and bargaining phases
\* are all the first offer.
C25_OfferNeverChanges ==
  /\ []((last_offered_bid # None /\ progress < NearDeadline
           /\ Len(received_bids) < CheckpointSecond) =>
          last_offered_bid = best_candidate_space[1])
  /\ [][(/\ event' = "YourTurn"
         /\ sent'.kind = "Offer"
         /\ progress' < NearDeadline
         /\ Len(received_bids) < CheckpointSecond) =>
          /\ sent'.bid = best_candidate_space'[1]
          /\ last_offered_bid # None =>
               /\ sent'.bid = last_offered_bid
               /\ best_candidate_space' = best_candidate_space]_vars
\* A turn of the bargaining phase has repeated the offer although the
\* candidate space holds a bid above the threshold that the opponent is
\* predicted to like better.
C25_Witness ==
  /\ event = "YourTurn"
  /\ sent.kind = "Offer"
  /\ OpeningEnd <= progress
  /\ progress < NearDeadline
  /\ received_bids # << >>
  /\ sent.bid = last_offered_bid
  /\ \E b \in Range(best_candidate_space) :
       /\ 10 * getUtility(profile, b) > 9 * getUtility(profile, sent.bid)
       /\ get_predicted_utility(opponent_model, b)
            > get_predicted_utility(opponent_model, sent.bid)

\* C26: in every state of a session the probe-bid history is empty and the
\* hypothesis and the label are unset; and every step that refreshes the
\* candidate space leaves in it the top TopN bids of the sample by own
\* utility (in the order the opening's in-place sort gives them, on a first
\* turn), never the refined selection.
C26_RecognitionNeverStarts ==
  /\ [](/\ recognition_h_bid_history = << >>
        /\ opponent_hypothesis = NoHypothesis
        /\ recognized_strategy = "None")
  /\ [][refreshes' # refreshes =>
          \A b \in all_bids :
            CountIn(best_candidate_space', b) = CountIn(Prefix(sample_bids', TopN), b)]_vars
\* A turn has refreshed the candidate space with more than MinHistory offers
\* received, after the recognition window has gone by.
C26_Witness ==
  /\ event = "YourTurn"
  /\ failure = ""
  /\ Len(received_bids) > MinHistory
  /\ Len(recognition_o_bid_history) = WindowLength
  /\ refreshes >= 2
  /\ sample_bids # << >>
  /\ best_candidate_space # << >>

\* C27: an ActionDone of the party's own action, and an opponent action that
\* is no Offer, leave the received history, last_received_bid, the fallback
\* bid and value, the opponent model, the recognition state, the candidate
\* space and last_offered_bid unchanged; last_offered_bid changes only in a
\* YourTurn that sends the Offer of its new value, and a YourTurn that sends
\* an Accept leaves it unchanged.
C27_FrameOfOtherEvents ==
  [][/\ event' \in {"OwnActionDone", "OpponentOther"} =>
          UNCHANGED <<history, recognition, space_vars, last_offered_bid>>
     /\ last_offered_bid' # last_offered_bid =>
          /\ event' = "YourTurn"
          /\ sent' = Offer(last_offered_bid')
     /\ (event' = "YourTurn" /\ sent'.kind = "Accept") =>
          last_offered_bid' = last_offered_bid]_vars
\* The party's own Offer has been reported back to it after it had received
\* an offer and built its candidate space.
C27_Witness ==
  /\ event = "OwnActionDone"
  /\ received_bids # << >>
  /\ last_offered_bid # None
  /\ best_candidate_space # << >>
  /\ social_welfare_bid # None

====
